---- MODULE Spec2Model ----
(***************************************************************************)
(* Model of SongAudioProcessor.                                            *)
(*                                                                         *)
(*   src/audio_processor.py  AudioProcessor: find_splice_points,           *)
(*                           adjust_loudness, process_audio                *)
(*   src/main.py             get_base_filename, find_matching_files,       *)
(*                           upload_files                                  *)
(*                                                                         *)
(* Four specifications share the module:                                   *)
(*   Spec / FairSpec   one call of process_audio (job 1)                   *)
(*   SpecConcurrent    two calls of process_audio, each with a second file *)
(*   SpecSplice        one call of find_splice_points                      *)
(*   SpecUpload        one request handled by upload_files                 *)
(*                                                                         *)
(* Loudness values are integers in units of 0.01 LU.  Times of the splice  *)
(* search are sample indices at librosa's sampling rate.                   *)
(***************************************************************************)
EXTENDS Integers, Sequences, FiniteSets, TLC

VARIABLES
    \* ---- process_audio, one entry per job -------------------------------
    pc,            \* position of each job in process_audio
    args,          \* the arguments of the call
    temp,          \* the file "temp_concatenated.wav" (shared by all jobs)
    input_path,    \* local input_path: "input" or "temp"
    audio_data,    \* local audio_data (a waveform) or NoAudio
    initial_lufs,  \* local initial_lufs
    current_lufs,  \* local current_lufs
    norm,          \* the frame of the running adjust_loudness call
    log,           \* history: the stages the job has completed, in order
    output,        \* the file at output_path: NoAudio or the waveform written
    result,        \* "none", "true" (returned True) or "raised"
    \* ---- find_splice_points ----------------------------------------------
    sp,
    \* ---- upload_files ----------------------------------------------------
    up

vars == <<pc, args, temp, input_path, audio_data, initial_lufs, current_lufs,
          norm, log, output, result, sp, up>>

jobVars == <<pc, args, temp, input_path, audio_data, initial_lufs,
             current_lufs, norm, log, output, result>>

(***************************************************************************)
(* Bounds of the model.                                                    *)
(***************************************************************************)
MaxCandidates == 1      \* candidates the Selector may return in process_audio
GateErr == 12           \* largest gating non-linearity of the meter, 0.01 LU

(***************************************************************************)
(* Program constants.                                                      *)
(***************************************************************************)
TargetLufs == -1400     \* target_lufs = -14.0
Tolerance == 10         \* tolerance = 0.1
StrictGate == 5         \* the 0.05 threshold of process_audio
MaxIterations == 5      \* max_iterations = 5

Jobs == {1, 2}

Abs(x) == IF x < 0 THEN -x ELSE x

(***************************************************************************)
(* Waveforms.  A waveform is described by the file content it was decoded  *)
(* from (src: 0 for the caller's own input file, j for the join written by *)
(* job j), the total gain applied to its samples (gain, 0.01 dB, and nan   *)
(* once the samples were multiplied by an infinite gain), the number of    *)
(* silence blocks appended (pad), whether it is shorter than the meter's   *)
(* 0.4 s block (short), and its integrated loudness (lufs).                *)
(***************************************************************************)
\* The meter's answer for digital silence, -inf: farther from the target than
\* any threshold, and unchanged by any gain.
NegInf == -100000

NoAudio == [src |-> -1, gain |-> 0, nan |-> FALSE, pad |-> 0,
            short |-> FALSE, lufs |-> 0]

\* Loudness of the decoded input files: silence, far off, around the strict
\* gate and the tolerance on both sides, and on target.
InitLufs == {NegInf, TargetLufs - 1100, TargetLufs - 12, TargetLufs - 8,
             TargetLufs - 3, TargetLufs, TargetLufs + 5, TargetLufs + 7,
             TargetLufs + 10}

\* Deviation of a scaled waveform's loudness from "old loudness + gain":
\* the gating of the meter is not linear in the gain.
MeterErr == {0, GateErr}

\* Change of the integrated loudness when trailing silence is appended.
PadShift == {-7, 0}

\* meter.integrated_loudness / measure_loudness
MeasureLoudness(w) == w.lufs

\* the damping factor of adjust_loudness: 1.0 if i == 0 else 0.8
Damped(db, i) ==
    IF i = 0 THEN db
    ELSE IF db >= 0 THEN (db * 8) \div 10 ELSE -(((-db) * 8) \div 10)

\* the tolerance confused with the strict gate of process_audio
ConvergedStrict(current) == Abs(TargetLufs - current) < StrictGate

\* abs(db_change) < self.tolerance, with db_change = target - current
Converged(current) == Abs(TargetLufs - current) < Tolerance

\* the strict gate confused with the tolerance
GateOpenLoose(lufs) == Abs(lufs - TargetLufs) > Tolerance

\* abs(lufs - self.target_lufs) > 0.05
GateOpen(lufs) == Abs(lufs - TargetLufs) > StrictGate

\* adjusted_audio * (10 ** ((db_change * damping) / 20)); the loudness of
\* the product is fixed by the samples, e is the meter's non-linearity
ScaleAudio(w, current, i, e) ==
    IF current = NegInf
    THEN [w EXCEPT !.nan = TRUE, !.lufs = NegInf]
    ELSE [w EXCEPT !.gain = @ + Damped(TargetLufs - current, i),
                   !.lufs = @ + Damped(TargetLufs - current, i) + e]

\* np.concatenate([audio_data, silence])
AddSilence(w, d) ==
    [w EXCEPT !.pad = @ + 1, !.short = FALSE,
              !.lufs = IF @ = NegInf THEN NegInf ELSE @ + d]

\* The frame of adjust_loudness: the loop index i, the local adjusted_audio,
\* and as history the argument (input), the number of gain scalings applied
\* (scaled) and how the loop ended (exit).
NoNorm == [active |-> FALSE, i |-> 0, scaled |-> 0, input |-> NoAudio,
           adjusted |-> NoAudio, exit |-> "none"]

NoTemp == [exists |-> FALSE, content |-> 0]

Raise(j) ==
    /\ pc' = [pc EXCEPT ![j] = "done"]
    /\ result' = [result EXCEPT ![j] = "raised"]

Goto(j, l) ==
    /\ pc' = [pc EXCEPT ![j] = l]
    /\ UNCHANGED result

Logged(j, s) == log' = [log EXCEPT ![j] = Append(@, s)]

(***************************************************************************)
(* process_audio (src/audio_processor.py 159-221), one action per stage.   *)
(* Every stage that raises ends in the except clause of lines 217-221,     *)
(* which re-raises: the job is done with result "raised".                  *)
(***************************************************************************)

\* lines 163-164: which join, if any
Enter(j) ==
    /\ pc[j] = "call"
    /\ Goto(j, IF args[j].second
               THEN (IF args[j].interactive THEN "select" ELSE "concat")
               ELSE "read")
    /\ UNCHANGED <<sp, up, args, temp, input_path, audio_data, initial_lufs,
                   current_lufs, norm, log, output>>

\* an empty candidate list answered with a default splice point
SelectSpliceDefault(j) ==
    /\ pc[j] = "select"
    /\ IF ~(args[j].in1ok /\ args[j].in2ok)
       THEN Raise(j) /\ UNCHANGED log
       ELSE \E n \in 0..MaxCandidates :
              /\ Goto(j, "join")
              /\ Logged(j, IF n = 0 THEN "select_empty" ELSE "select")
    /\ UNCHANGED <<sp, up, args, temp, input_path, audio_data, initial_lufs,
                   current_lufs, norm, output>>

\* lines 166-167: find_splice_points decodes both files, and
\* splice_candidates[0] raises IndexError on an empty list
SelectSplice(j) ==
    /\ pc[j] = "select"
    /\ IF ~(args[j].in1ok /\ args[j].in2ok)
       THEN Raise(j) /\ UNCHANGED log
       ELSE \E n \in 0..MaxCandidates :
              IF n = 0
              THEN Raise(j) /\ Logged(j, "select_empty")
              ELSE Goto(j, "join") /\ Logged(j, "select")
    /\ UNCHANGED <<sp, up, args, temp, input_path, audio_data, initial_lufs,
                   current_lufs, norm, output>>

\* lines 170-171: concatenate_at_point exports "temp_concatenated.wav"
JoinAtPoint(j) ==
    /\ pc[j] = "join"
    /\ temp' = [exists |-> TRUE, content |-> j]
    /\ input_path' = [input_path EXCEPT ![j] = "temp"]
    /\ Logged(j, "join")
    /\ Goto(j, "read")
    /\ UNCHANGED <<sp, up, args, audio_data, initial_lufs, current_lufs, norm, output>>

\* lines 174-179: plain concatenation, exported to the same fixed name
SimpleConcat(j) ==
    /\ pc[j] = "concat"
    /\ IF ~(args[j].in1ok /\ args[j].in2ok)
       THEN Raise(j) /\ UNCHANGED <<temp, input_path, log>>
       ELSE /\ temp' = [exists |-> TRUE, content |-> j]
            /\ input_path' = [input_path EXCEPT ![j] = "temp"]
            /\ Logged(j, "concat")
            /\ Goto(j, "read")
    /\ UNCHANGED <<sp, up, args, audio_data, initial_lufs, current_lufs, norm, output>>

\* The waveform decoded from a file: the content fixes its loudness and
\* its length.  a is the call whose input (c = 0) or join (c = job) it is.
Decode(c, a) ==
    [src |-> c, gain |-> 0, nan |-> FALSE, pad |-> 0, short |-> a.short,
     lufs |-> a.lufs]

\* line 182: sf.read(input_path)
ReadAudio(j) ==
    /\ pc[j] = "read"
    /\ IF \/ input_path[j] = "input" /\ ~args[j].in1ok
          \/ input_path[j] = "temp" /\ ~temp.exists
       THEN /\ Raise(j)
            /\ Logged(j, "load_failed")
            /\ UNCHANGED audio_data
       ELSE /\ audio_data' = [audio_data EXCEPT ![j] =
                   IF input_path[j] = "temp"
                   THEN Decode(temp.content, args[temp.content])
                   ELSE Decode(0, args[j])]
            /\ Logged(j, "load")
            /\ Goto(j, "measure1")
    /\ UNCHANGED <<sp, up, args, temp, input_path, initial_lufs, current_lufs, norm,
                   output>>

\* the call of adjust_loudness: lines 134-135
NormCall(w) ==
    [active |-> TRUE, i |-> 0, scaled |-> 0, input |-> w, adjusted |-> w,
     exit |-> "none"]

\* lines 185-191: the meter rejects audio shorter than its block
MeasureInitial(j) ==
    /\ pc[j] = "measure1"
    /\ IF audio_data[j].short
       THEN Raise(j) /\ UNCHANGED <<initial_lufs, norm, log>>
       ELSE /\ initial_lufs' =
                   [initial_lufs EXCEPT ![j] = MeasureLoudness(audio_data[j])]
            /\ Logged(j, "measure")
            /\ IF GateOpen(MeasureLoudness(audio_data[j]))
               THEN /\ norm' = [norm EXCEPT ![j] = NormCall(audio_data[j])]
                    /\ Goto(j, "norm1")
               ELSE /\ UNCHANGED norm
                    /\ Goto(j, "pad")
    /\ UNCHANGED <<sp, up, args, temp, input_path, audio_data, current_lufs, output>>

(***************************************************************************)
(* adjust_loudness (lines 129-157), one action per loop iteration.         *)
(***************************************************************************)
InNorm(j) == pc[j] \in {"norm1", "norm2"}

\* line 157 and the caller's assignment (line 191 or 202); after the first
\* pass the caller measures once more for its report (line 192)
AdjustReturn(j, how) ==
    /\ norm' = [norm EXCEPT ![j].active = FALSE, ![j].exit = how]
    /\ audio_data' = [audio_data EXCEPT ![j] = norm[j].adjusted]
    /\ log' = [log EXCEPT ![j] =
                 IF pc[j] = "norm1" THEN @ \o <<"normalize", "measure">>
                 ELSE Append(@, "normalize")]
    /\ Goto(j, IF pc[j] = "norm1" THEN "pad" ELSE "write")

\* lines 137-155: an iteration that scales the samples
AdjustIterate(j) ==
    /\ InNorm(j)
    /\ norm[j].i < MaxIterations
    /\ LET current == MeasureLoudness(norm[j].adjusted) IN
         /\ ~Converged(current)
         /\ \E e \in MeterErr :
              norm' = [norm EXCEPT
                  ![j].adjusted = ScaleAudio(@, current, norm[j].i, e),
                  ![j].i = @ + 1,
                  ![j].scaled = @ + 1]
    /\ UNCHANGED <<sp, up, pc, result, args, temp, input_path, audio_data,
                   initial_lufs, current_lufs, log, output>>

\* lines 139-147: the iteration that finds the loudness within tolerance
AdjustBreak(j) ==
    /\ InNorm(j)
    /\ norm[j].i < MaxIterations
    /\ Converged(MeasureLoudness(norm[j].adjusted))
    /\ AdjustReturn(j, "converged")
    /\ UNCHANGED <<sp, up, args, temp, input_path, initial_lufs, current_lufs, output>>

\* running out of iterations treated as a failure
AdjustExhaustRaises(j) ==
    /\ InNorm(j)
    /\ norm[j].i >= MaxIterations
    /\ Raise(j)
    /\ UNCHANGED <<sp, up, args, temp, input_path, audio_data, initial_lufs,
                   current_lufs, norm, log, output>>

\* line 137: range(max_iterations) is used up
AdjustExhaust(j) ==
    /\ InNorm(j)
    /\ norm[j].i >= MaxIterations
    /\ AdjustReturn(j, "exhausted")
    /\ UNCHANGED <<sp, up, args, temp, input_path, initial_lufs, current_lufs, output>>

(***************************************************************************)
(* process_audio, continued.                                               *)
(***************************************************************************)

\* line 196
PadSilence(j) ==
    /\ pc[j] = "pad"
    /\ \E d \in PadShift :
         audio_data' = [audio_data EXCEPT ![j] = AddSilence(@, d)]
    /\ Logged(j, "pad")
    /\ Goto(j, "measure2")
    /\ UNCHANGED <<sp, up, args, temp, input_path, initial_lufs, current_lufs, norm,
                   output>>

\* lines 199-202
MeasurePadded(j) ==
    /\ pc[j] = "measure2"
    /\ current_lufs' =
           [current_lufs EXCEPT ![j] = MeasureLoudness(audio_data[j])]
    /\ Logged(j, "measure")
    /\ IF GateOpen(MeasureLoudness(audio_data[j]))
       THEN /\ norm' = [norm EXCEPT ![j] = NormCall(audio_data[j])]
            /\ Goto(j, "norm2")
       ELSE /\ UNCHANGED norm
            /\ Goto(j, "write")
    /\ UNCHANGED <<sp, up, args, temp, input_path, audio_data, initial_lufs, output>>

\* line 205: sf.write may fail (unwritable path, full disk)
WriteOutput(j) ==
    /\ pc[j] = "write"
    /\ \E ok \in BOOLEAN :
         IF ok
         THEN /\ output' = [output EXCEPT ![j] = audio_data[j]]
              /\ Logged(j, "write")
              /\ Goto(j, "verify")
         ELSE /\ Raise(j)
              /\ UNCHANGED <<output, log>>
    /\ UNCHANGED <<sp, up, args, temp, input_path, audio_data, initial_lufs,
                   current_lufs, norm>>

\* lines 208-212: the final measurement and the test os.path.exists
VerifyFinal(j) ==
    /\ pc[j] = "verify"
    /\ Logged(j, "measure")
    /\ IF args[j].second /\ temp.exists
       THEN Goto(j, "remove")
       ELSE /\ pc' = [pc EXCEPT ![j] = "done"]
            /\ result' = [result EXCEPT ![j] = "true"]
    /\ UNCHANGED <<sp, up, args, temp, input_path, audio_data, initial_lufs,
                   current_lufs, norm, output>>

\* lines 213-215: os.remove raises when the file is gone by now
RemoveTemp(j) ==
    /\ pc[j] = "remove"
    /\ IF temp.exists
       THEN /\ temp' = NoTemp
            /\ pc' = [pc EXCEPT ![j] = "done"]
            /\ result' = [result EXCEPT ![j] = "true"]
       ELSE /\ Raise(j)
            /\ UNCHANGED temp
    /\ UNCHANGED <<sp, up, args, input_path, audio_data, initial_lufs, current_lufs,
                   norm, log, output>>

(***************************************************************************)
(* find_splice_points (lines 24-88).  librosa.load resamples to SampleRate *)
(* and beat frames are HopLength samples apart, so a beat at frame f is at *)
(* sample f * HopLength and its window is that sample -/+ 0.1 s.           *)
(***************************************************************************)
SampleRate == 22050     \* librosa.load's sampling rate
HopLength == 512        \* librosa's hop length, frames_to_time
Window == 10            \* window = 10 seconds
NumCandidates == 5      \* num_candidates = 5
MaxBeats == 2           \* beats per timeline in the model

HalfSegment == SampleRate \div 10          \* 0.1 s in samples

\* Buffer lengths in samples: shorter than one window, a little longer,
\* and longer than the 10 s search window.
BufferLens == {3000, 6000, 300000}

\* Beat frames the beat tracker may report.
BeatFrames == {1, 3, 5, 200, 580, 585}

RECURSIVE SortedSeq(_)
\* the elements of a set of numbers in increasing order
SortedSeq(S) ==
    IF S = {} THEN <<>>
    ELSE LET m == CHOOSE x \in S : \A y \in S : x <= y
         IN <<m>> \o SortedSeq(S \ {m})

\* the beat timelines a buffer of n samples can have
Timelines(n) ==
    {SortedSeq(B) : B \in {X \in SUBSET {f \in BeatFrames : f * HopLength < n} :
                               Cardinality(X) <= MaxBeats}}

\* line 49: beat_times1 > len(audio1)/sr1 - window
EndBeats(beats, n) ==
    SelectSeq(beats, LAMBDA f : f * HopLength > n - Window * SampleRate)

\* line 50: beat_times2 < window
StartBeats(beats) ==
    SelectSeq(beats, LAMBDA f : f * HopLength < Window * SampleRate)

\* lines 56-59
SegStart(f) == f * HopLength - HalfSegment
SegEnd(f) == f * HopLength + HalfSegment

\* line 61
OutOfBounds(f1, f2, n1, n2) == SegEnd(f1) >= n1 \/ SegEnd(f2) >= n2

\* lines 64-65: audio[start:end]; a negative start counts from the end of
\* the buffer.  The result is the pair of the first and the past-the-end
\* index actually read.
Slice(start, end, n) ==
    LET s0 == IF start >= 0 THEN start
              ELSE IF start + n >= 0 THEN start + n ELSE 0
        e0 == IF end > n THEN n ELSE end
    IN <<s0, IF e0 < s0 THEN s0 ELSE e0>>

EmptySlice(sl) == sl[1] = sl[2]

RECURSIVE SortBySimilarity(_)
\* line 87: a stable sort by descending similarity
SortBySimilarity(cs) ==
    IF cs = <<>> THEN <<>>
    ELSE LET best == CHOOSE k \in 1..Len(cs) :
                        /\ \A m \in 1..Len(cs) :
                              cs[m].similarity <= cs[k].similarity
                        /\ \A m \in 1..(k - 1) :
                              cs[m].similarity < cs[k].similarity
         IN <<cs[best]>> \o
            SortBySimilarity([m \in 1..(Len(cs) - 1) |->
                                  IF m < best THEN cs[m] ELSE cs[m + 1]])

\* line 88: candidates[:num_candidates]
Truncate(cs) == SubSeq(cs, 1, IF Len(cs) < NumCandidates THEN Len(cs)
                                 ELSE NumCandidates)

\* the pair the loops of lines 53-54 are at
PairAt == <<sp.end_beats1[sp.i], sp.start_beats2[sp.k]>>

Advance(s) ==
    IF s.k < Len(s.start_beats2) THEN [s EXCEPT !.k = @ + 1]
    ELSE [s EXCEPT !.i = @ + 1, !.k = 1]

InLoop ==
    /\ sp.phase = "loop"
    /\ sp.i <= Len(sp.end_beats1)
    /\ sp.start_beats2 # <<>>

\* lines 61-62: a pair whose window ends at or past the end is skipped
SkipPair ==
    /\ InLoop
    /\ OutOfBounds(PairAt[1], PairAt[2], sp.len1, sp.len2)
    /\ sp' = Advance(sp)
    /\ UNCHANGED <<jobVars, up>>

\* lines 64-84: the pair is scored and appended.  The score depends on the
\* samples; an empty segment makes the transform fail or answer nan,
\* depending on the library.
ScorePair ==
    /\ InLoop
    /\ ~OutOfBounds(PairAt[1], PairAt[2], sp.len1, sp.len2)
    /\ LET seg1 == Slice(SegStart(PairAt[1]), SegEnd(PairAt[1]), sp.len1)
           seg2 == Slice(SegStart(PairAt[2]), SegEnd(PairAt[2]), sp.len2)
       IN \E sim \in {1, 2}, fails \in BOOLEAN :
            /\ fails => (EmptySlice(seg1) \/ EmptySlice(seg2))
            /\ IF fails
               THEN sp' = [sp EXCEPT !.phase = "raised"]
               ELSE sp' = Advance([sp EXCEPT !.candidates = Append(@,
                              [time1 |-> PairAt[1], time2 |-> PairAt[2],
                               similarity |-> sim, seg1 |-> seg1,
                               seg2 |-> seg2])])
    /\ UNCHANGED <<jobVars, up>>

\* lines 87-88
ReturnCandidates ==
    /\ sp.phase = "loop"
    /\ sp.i > Len(sp.end_beats1) \/ sp.start_beats2 = <<>>
    /\ sp' = [sp EXCEPT !.phase = "done",
                        !.returned = Truncate(SortBySimilarity(sp.candidates))]
    /\ UNCHANGED <<jobVars, up>>

(***************************************************************************)
(* Filenames (src/main.py).  A filename is a sequence of pieces: "." is a  *)
(* dot, "_pt2" is the text _pt2, every other piece is a run of letters and *)
(* digits.  No piece but "_pt2" holds an underscore and no piece but "."   *)
(* holds a dot, so the text "_pt2." occurs exactly where a "_pt2" piece is *)
(* followed by a "." piece.                                                *)
(***************************************************************************)
MaxFiles == 2           \* files in one request

\* The names a request may carry, as upload_files stores them (accepted by
\* allowed_file, cleaned by secure_filename).
UploadNames ==
    { <<"a", ".", "wav">>,                     \* a.wav
      <<"a", ".", "mp3">>,                     \* a.mp3
      <<"a", "_pt2", ".", "wav">>,             \* a_pt2.wav
      <<"a", "_pt2", ".", "mp3">>,             \* a_pt2.mp3
      <<"b", "_pt2", ".", "wav">>,             \* b_pt2.wav
      <<"a", "_pt2", ".", "b", ".", "wav">>,   \* a_pt2.b.wav
      <<"a", "_pt2", "b", ".", "wav">> }       \* a_pt2b.wav

\* index of the last "." of a name, 0 if there is none
LastDot(name) ==
    LET D == {k \in 1..Len(name) : name[k] = "."}
    IN IF D = {} THEN 0 ELSE CHOOSE k \in D : \A m \in D : m <= k

\* line 52
allowed_file(name) ==
    /\ LastDot(name) > 0
    /\ SubSeq(name, LastDot(name) + 1, Len(name)) \in {<<"wav">>, <<"mp3">>}

\* lines 54-56: re.sub(r'_pt2(?=\.[^.]+$)', '', filename) removes the _pt2
\* that is followed by the last dot and a non-empty extension
get_base_filename(name) ==
    LET d == LastDot(name)
    IN IF d >= 2 /\ d < Len(name) /\ name[d - 1] = "_pt2"
       THEN SubSeq(name, 1, d - 2) \o SubSeq(name, d, Len(name))
       ELSE name

\* line 67: '_pt2.' in filename
HasPt2Dot(name) ==
    \E k \in 1..(Len(name) - 1) : name[k] = "_pt2" /\ name[k + 1] = "."

NoFile == <<>>

\* lines 62-70, for one file: groups is the pair of the key order of the
\* dict and the dict itself
FileInto(groups, name) ==
    LET base == get_base_filename(name)
        keys == IF base \in DOMAIN groups[2] THEN groups[1]
                ELSE Append(groups[1], base)
        old == IF base \in DOMAIN groups[2] THEN groups[2][base]
               ELSE [part1 |-> NoFile, part2 |-> NoFile]
        new == IF HasPt2Dot(name) THEN [old EXCEPT !.part2 = name]
               ELSE [old EXCEPT !.part1 = name]
    IN <<keys, [b \in DOMAIN groups[2] \cup {base} |->
                   IF b = base THEN new ELSE groups[2][b]]>>

RECURSIVE FileAll(_, _)
FileAll(groups, files) ==
    IF files = <<>> THEN groups
    ELSE FileAll(FileInto(groups, Head(files)), Tail(files))

\* lines 58-72
find_matching_files(files) == FileAll(<< <<>>, <<>> >>, files)

\* line 109: os.path.splitext(base_filename)[0]
SplitExtRoot(name) ==
    IF LastDot(name) > 1 THEN SubSeq(name, 1, LastDot(name) - 1) ELSE name

\* lines 110-111
WavOutput(base) == SplitExtRoot(base) \o <<"_final", ".", "wav">>
Mp3Output(base) == SplitExtRoot(base) \o <<"_final", ".", "mp3">>

\* a file written into the output folder, overwriting what was there
WriteFile(folder, path, writer) ==
    [q \in DOMAIN folder \cup {path} |->
        IF q = path THEN writer ELSE folder[q]]

(***************************************************************************)
(* upload_files (lines 83-165).  The state starts after the files are      *)
(* saved (line 97).  process_audio returns True or raises, and             *)
(* convert_to_mp3 returns or raises; which, depends on the files.          *)
(***************************************************************************)
CurrentKey == up.keys[up.idx]
CurrentGroup == up.file_groups[CurrentKey]

InGroupLoop == up.phase = "loop" /\ up.idx <= Len(up.keys)

Report(status) ==
    [up EXCEPT !.results = Append(@, [filename |-> CurrentKey,
                                      status |-> status]),
               !.idx = @ + 1]

\* line 100
GroupFiles ==
    /\ up.phase = "saved"
    /\ LET g == find_matching_files(up.uploaded_files)
       IN up' = [up EXCEPT !.phase = "loop", !.keys = g[1],
                           !.file_groups = g[2]]
    /\ UNCHANGED <<jobVars, sp>>

\* line 108 with group['part1'] None: os.path.join raises TypeError, caught
\* by the except clause of lines 145-153
GroupWithoutPart1 ==
    /\ InGroupLoop
    /\ CurrentGroup.part1 = NoFile
    /\ up' = Report("error")
    /\ UNCHANGED <<jobVars, sp>>

\* a failure of process_audio that is not caught: the request ends in the
\* application's error handler
GroupProcessAborts ==
    /\ InGroupLoop
    /\ CurrentGroup.part1 # NoFile
    /\ up' = [up EXCEPT !.phase = "done", !.response = <<>>]
    /\ UNCHANGED <<jobVars, sp>>

\* lines 113-125 raise: process_audio failed; lines 145-153
GroupProcessFails ==
    /\ InGroupLoop
    /\ CurrentGroup.part1 # NoFile
    /\ up' = Report("error")
    /\ UNCHANGED <<jobVars, sp>>

\* lines 113-129: the WAV is written, convert_to_mp3 raises; lines 145-153
GroupConvertFails ==
    /\ InGroupLoop
    /\ CurrentGroup.part1 # NoFile
    /\ up' = [Report("error") EXCEPT
                 !.processed = WriteFile(@, WavOutput(CurrentKey), CurrentKey)]
    /\ UNCHANGED <<jobVars, sp>>

\* lines 113-137
GroupSucceeds ==
    /\ InGroupLoop
    /\ CurrentGroup.part1 # NoFile
    /\ up' = [Report("success") EXCEPT
                 !.processed = WriteFile(
                     WriteFile(@, WavOutput(CurrentKey), CurrentKey),
                     Mp3Output(CurrentKey), CurrentKey)]
    /\ UNCHANGED <<jobVars, sp>>

\* lines 155-165
Respond ==
    /\ up.phase = "loop"
    /\ up.idx > Len(up.keys)
    /\ up' = [up EXCEPT !.phase = "done", !.response = up.results,
                        !.uploads = {}]
    /\ UNCHANGED <<jobVars, sp>>

RECURSIVE Batches(_)
\* the sequences of at most n upload names
Batches(n) ==
    IF n = 0 THEN {<<>>}
    ELSE Batches(n - 1) \cup
         {Append(b, f) : b \in {x \in Batches(n - 1) : Len(x) = n - 1},
                         f \in {x \in UploadNames : allowed_file(x)}}

\* The arguments of a call: whether a second file is given, the splice
\* mode, whether each input file decodes, and the loudness and length of
\* the working waveform the inputs yield.
ArgsOver(L, S) ==
    {a \in [second : BOOLEAN, interactive : BOOLEAN, in1ok : BOOLEAN,
            in2ok : BOOLEAN, lufs : L, short : S] :
        ~a.second => (~a.interactive /\ ~a.in2ok)}

NoArgs == [second |-> FALSE, interactive |-> FALSE, in1ok |-> FALSE,
           in2ok |-> FALSE, lufs |-> 0, short |-> FALSE]

NoSplice == [phase |-> "off"]
NoUpload == [phase |-> "off"]

JobInit(called) ==
    /\ pc = [j \in Jobs |-> IF j \in called THEN "call" ELSE "idle"]
    /\ temp = NoTemp
    /\ input_path = [j \in Jobs |-> "input"]
    /\ audio_data = [j \in Jobs |-> NoAudio]
    /\ initial_lufs = [j \in Jobs |-> 0]
    /\ current_lufs = [j \in Jobs |-> 0]
    /\ norm = [j \in Jobs |-> NoNorm]
    /\ log = [j \in Jobs |-> <<>>]
    /\ output = [j \in Jobs |-> NoAudio]
    /\ result = [j \in Jobs |-> "none"]

\* one call of process_audio, with any arguments
Init ==
    /\ JobInit({1})
    /\ \E a \in ArgsOver(InitLufs, BOOLEAN) :
         args = [j \in Jobs |-> IF j = 1 THEN a ELSE NoArgs]
    /\ sp = NoSplice
    /\ up = NoUpload

Next ==
    \/ \E j \in Jobs : Enter(j)
    \/ \E j \in Jobs : SelectSplice(j)
    \/ \E j \in Jobs : JoinAtPoint(j)
    \/ \E j \in Jobs : SimpleConcat(j)
    \/ \E j \in Jobs : ReadAudio(j)
    \/ \E j \in Jobs : MeasureInitial(j)
    \/ \E j \in Jobs : AdjustIterate(j)
    \/ \E j \in Jobs : AdjustBreak(j)
    \/ \E j \in Jobs : AdjustExhaust(j)
    \/ \E j \in Jobs : PadSilence(j)
    \/ \E j \in Jobs : MeasurePadded(j)
    \/ \E j \in Jobs : WriteOutput(j)
    \/ \E j \in Jobs : VerifyFinal(j)
    \/ \E j \in Jobs : RemoveTemp(j)

Spec == Init /\ [][Next]_vars

\* process_audio is synchronous: a call that has a step to take takes it
FairSpec == Spec /\ WF_vars(Next)

\* Two concurrent calls, each with a second file and decodable inputs.  The
\* loudness of the joins is taken from ConcLufs.
ConcLufs == {TargetLufs - 12, TargetLufs}

InitConcurrent ==
    /\ JobInit(Jobs)
    /\ args \in [Jobs -> {a \in ArgsOver(ConcLufs, {FALSE}) :
                            a.second /\ a.in1ok /\ a.in2ok}]
    /\ sp = NoSplice
    /\ up = NoUpload

SpecConcurrent == InitConcurrent /\ [][Next]_vars

\* one call of find_splice_points, after the analysis of lines 33-50
InitSplice ==
    /\ JobInit({})
    /\ args = [j \in Jobs |-> NoArgs]
    /\ up = NoUpload
    /\ \E n1 \in BufferLens, n2 \in BufferLens :
         \E b1 \in Timelines(n1), b2 \in Timelines(n2) :
            sp = [phase |-> "loop", len1 |-> n1, len2 |-> n2,
                  beats1 |-> b1, beats2 |-> b2,
                  end_beats1 |-> EndBeats(b1, n1),
                  start_beats2 |-> StartBeats(b2),
                  i |-> 1, k |-> 1, candidates |-> <<>>, returned |-> <<>>]

NextSplice ==
    \/ SkipPair
    \/ ScorePair
    \/ ReturnCandidates

SpecSplice == InitSplice /\ [][NextSplice]_vars

\* one request to upload_files, after its files are saved
InitUpload ==
    /\ JobInit({})
    /\ args = [j \in Jobs |-> NoArgs]
    /\ sp = NoSplice
    /\ \E files \in Batches(MaxFiles) :
         up = [phase |-> "saved", uploaded_files |-> files,
               uploads |-> {files[k] : k \in 1..Len(files)},
               keys |-> <<>>, file_groups |-> <<>>, idx |-> 1,
               results |-> <<>>, processed |-> <<>>, response |-> <<>>]

NextUpload ==
    \/ GroupFiles
    \/ GroupWithoutPart1
    \/ GroupProcessFails
    \/ GroupConvertFails
    \/ GroupSucceeds
    \/ Respond

SpecUpload == InitUpload /\ [][NextUpload]_vars

(***************************************************************************)
(* Properties of process_audio and adjust_loudness.                        *)
(***************************************************************************)
Has(seq, x) == \E k \in 1..Len(seq) : seq[k] = x

Ended(j) == pc[j] = "done"

\* C1: when a call of process_audio that was given a second file ends,
\* returning or raising, the file temp_concatenated.wav no longer exists.
C1_TempRemovedAtEnd ==
    \A j \in Jobs : (Ended(j) /\ args[j].second) => ~temp.exists

\* C2: of two concurrent calls with a second file each, every call that
\* reaches its load step loads the join of its own two inputs: the load
\* neither fails on a file the other call removed nor decodes the other
\* call's join.
C2_LoadsOwnJoin ==
    \A j \in Jobs :
        /\ ~Has(log[j], "load_failed")
        /\ Has(log[j], "load") => audio_data[j].src = j

\* C4: adjust_loudness terminates.  It scales at most max_iterations times,
\* once per completed iteration; an iteration that measures a loudness
\* within the tolerance of the target ends the loop without scaling; and
\* however the loop ends the call returns to its caller, never raising.
C4_Bounded ==
    \A j \in Jobs :
        /\ norm[j].i <= MaxIterations
        /\ norm[j].scaled = norm[j].i
        /\ norm[j].exit = "converged" =>
               Abs(TargetLufs - MeasureLoudness(norm[j].adjusted)) < Tolerance
        /\ norm[j].exit = "exhausted" => norm[j].scaled = MaxIterations
        /\ InNorm(j) => (norm[j].active /\ result[j] = "none")

C4_Step ==
    \A j \in Jobs :
        InNorm(j) =>
            /\ result'[j] = "none"
            /\ pc'[j] \in {"norm1", "norm2", "pad", "write"}
            /\ (/\ norm[j].i < MaxIterations
                /\ Abs(TargetLufs - MeasureLoudness(norm[j].adjusted)) < Tolerance)
                   => /\ ~InNorm(j)'
                      /\ norm'[j].exit = "converged"
                      /\ norm'[j].scaled = norm[j].scaled
                      /\ audio_data'[j] = norm[j].adjusted

C4_AdjustLoudnessTerminates ==
    /\ []C4_Bounded
    /\ [][C4_Step]_vars
    /\ \A j \in Jobs : InNorm(j) ~> ~InNorm(j)

\* C4 witness: a call that used up all max_iterations scalings without
\* converging went on and returned True.
C4_Witness ==
    /\ norm[1].exit = "exhausted"
    /\ norm[1].scaled = MaxIterations
    /\ Abs(TargetLufs - MeasureLoudness(norm[1].adjusted)) >= Tolerance
    /\ result[1] = "true"

\* C5: a call of adjust_loudness whose argument is already within the
\* tolerance of the target scales nothing and hands back its argument.
C5_NoChangeNearTarget ==
    \A j \in Jobs :
        Abs(MeasureLoudness(norm[j].input) - TargetLufs) < Tolerance =>
            /\ norm[j].scaled = 0
            /\ norm[j].adjusted = norm[j].input
            /\ norm[j].exit # "exhausted"

\* C5 witness: adjust_loudness was called (the deviation is over the strict
\* gate) with a waveform within the tolerance, and has returned.
C5_Witness ==
    /\ norm[1].exit = "converged"
    /\ ~norm[1].active
    /\ norm[1].input # NoAudio
    /\ Abs(MeasureLoudness(norm[1].input) - TargetLufs) < Tolerance
    /\ Has(log[1], "normalize")

\* C7: in splice mode with a second file, an empty candidate list ends the
\* call by raising: nothing is joined, nothing is loaded, no output is
\* written.
C7_EmptySelectionFails ==
    \A j \in Jobs :
        Has(log[j], "select_empty") =>
            /\ Ended(j)
            /\ result[j] = "raised"
            /\ log[j] = <<"select_empty">>
            /\ input_path[j] = "input"
            /\ temp.content # j
            /\ output[j] = NoAudio

\* C7 witness: the Selector returned no candidate.
C7_Witness ==
    /\ args[1].second /\ args[1].interactive
    /\ Has(log[1], "select_empty")

\* The stages of a run after the join, given the two gated measurements.
StagesFor(first, second) ==
    <<"load", "measure">>
    \o (IF Abs(first - TargetLufs) > StrictGate
        THEN <<"normalize", "measure">> ELSE <<>>)
    \o <<"pad", "measure">>
    \o (IF Abs(second - TargetLufs) > StrictGate
        THEN <<"normalize">> ELSE <<>>)
    \o <<"write", "measure">>

JoinStages(j) ==
    IF ~args[j].second THEN <<>>
    ELSE IF args[j].interactive THEN <<"select", "join">> ELSE <<"concat">>

\* C8: a call that returns True went through load, measure, the first
\* Normalizer pass exactly if that measurement is more than 0.05 off the
\* target, pad, re-measure, the second pass exactly if the re-measurement
\* is more than 0.05 off, write, in this order and each once; the written
\* waveform carries exactly one block of silence.
C8_StageOrder ==
    \A j \in Jobs :
        result[j] = "true" =>
            /\ log[j] = JoinStages(j) \o StagesFor(initial_lufs[j], current_lufs[j])
            /\ output[j].pad = 1
            /\ output[j] = audio_data[j]

\* C8 witness: a successful run with only the second pass, which is due to
\* the padding alone.
C8_Witness ==
    /\ result[1] = "true"
    /\ Abs(initial_lufs[1] - TargetLufs) <= StrictGate
    /\ Abs(current_lufs[1] - TargetLufs) > StrictGate

(***************************************************************************)
(* Properties of find_splice_points.                                       *)
(***************************************************************************)
\* the window of +/- 0.1 s around the beat at frame f lies in a buffer of
\* n samples
WindowInside(f, n) == SegStart(f) >= 0 /\ SegEnd(f) <= n

\* C6: each candidate find_splice_points returns has both comparison
\* windows entirely inside their buffers, at the start as at the end.
C6_WindowsInside ==
    sp.phase = "done" =>
        \A c \in 1..Len(sp.returned) :
            /\ WindowInside(sp.returned[c].time1, sp.len1)
            /\ WindowInside(sp.returned[c].time2, sp.len2)

(***************************************************************************)
(* Properties of find_matching_files and upload_files.                     *)
(***************************************************************************)
\* C3: upload_files reports every file group exactly once, in order, as
\* success or error; a group that fails, one with a second part and no
\* first part included, does not keep a later group from being processed
\* and reported.
C3_OneResultPerGroup ==
    up.phase \in {"loop", "done"} =>
        /\ Len(up.results) = up.idx - 1
        /\ Len(up.results) <= Len(up.keys)
        /\ \A k \in 1..Len(up.results) :
              /\ up.results[k].filename = up.keys[k]
              /\ up.results[k].status \in {"success", "error"}
        /\ \A k \in 1..Len(up.keys) : \A m \in 1..Len(up.keys) :
              up.keys[k] = up.keys[m] => k = m
        /\ up.phase = "done" =>
              /\ up.response = up.results
              /\ Len(up.response) = Len(up.keys)

\* C3 witness: a request whose first group has a second part only and
\* failed, and whose later group succeeded.
C3_Witness ==
    /\ up.phase = "done"
    /\ \E k \in 1..Len(up.keys) : \E m \in (k + 1)..Len(up.keys) :
          /\ up.file_groups[up.keys[k]].part1 = NoFile
          /\ up.file_groups[up.keys[k]].part2 # NoFile
          /\ up.response[k].status = "error"
          /\ up.response[m].status = "success"

\* a name with _pt2 immediately before its extension
IsPt2Name(name) ==
    /\ LastDot(name) >= 2
    /\ LastDot(name) < Len(name)
    /\ name[LastDot(name) - 1] = "_pt2"

\* such a name with the _pt2 removed
WithoutPt2(name) ==
    SubSeq(name, 1, LastDot(name) - 2) \o SubSeq(name, LastDot(name), Len(name))

\* C9: find_matching_files files a name as the second part of a group
\* exactly if it has _pt2 immediately before the extension, then under the
\* name without that suffix; every other name is the first part of the
\* group keyed by itself.
C9_Pt2Classification ==
    up.phase \in {"loop", "done"} =>
        \A k \in 1..Len(up.uploaded_files) :
            LET f == up.uploaded_files[k] IN
            IF IsPt2Name(f)
            THEN /\ WithoutPt2(f) \in DOMAIN up.file_groups
                 /\ up.file_groups[WithoutPt2(f)].part2 = f
            ELSE /\ f \in DOMAIN up.file_groups
                 /\ up.file_groups[f].part1 = f

\* C10: the groups of one request have distinct output paths: the outputs
\* of a group reported as success are still its own when the request ends.
C10_DistinctOutputs ==
    up.phase = "done" =>
        \A k \in 1..Len(up.results) :
            up.results[k].status = "success" =>
                /\ up.processed[WavOutput(up.keys[k])] = up.keys[k]
                /\ up.processed[Mp3Output(up.keys[k])] = up.keys[k]

====
